---- MODULE Spec2Model ----
(***************************************************************************)
(* Model of ships.py: the wiki table scraper (extract_rows and the cell    *)
(* extractors), the image locator (get_in_space_image_src), and the image  *)
(* classifier / downloader (download_images, download_image, __main__).    *)
(*                                                                         *)
(* Python strings are tuples of one-character strings, so that the regular *)
(* expressions, os.path.basename and os.path.join are computed character   *)
(* by character.  The empty tuple stands for Python's None in the cells of *)
(* img_data (a stored basename is never empty).                            *)
(***************************************************************************)
EXTENDS Integers, Sequences, FiniteSets, TLC

VARIABLES
    \* ---- __main__ / download_images ----
    site,          \* the wiki: the detail page served for every Wiki URL,
                   \* known once the page has been loaded
    pc,            \* position of the running script
    prev,          \* how the previous invocation ended
    overwrite,     \* the overwrite argument of download_images
    args_destination, \* args.destination of the command line
    destination,   \* the local variable destination of download_images
    ships_data,    \* the rows returned by get_ships_data
    img_data,      \* the dict of columns built by download_images
    idx,           \* index of the ship in the enumerate loop
    img_srcs,      \* image sources of the current ship
    j,             \* position in zip(img_paths, img_srcs)
    fs,            \* the local file system: path -> content state
    fetched,       \* image URLs requested by download_image in this run
    exported,      \* tables written by to_csv in this run
    \* ---- extract_rows ----
    ships_table,   \* the tr elements of the listing table, in document order
    all_rows,      \* what extract_rows returned (or raised)
    \* ---- extract_cell_* ----
    row_element, cell_out,
    \* ---- get_in_space_image_src ----
    ship_page, loc_out,
    \* ---- pattern.search / view_fault_tolerance ----
    file_name, view_match, view, view_again, vpc

pipeVars == <<site, pc, prev, overwrite, args_destination, destination,
              ships_data, img_data, idx, img_srcs, j, fs, fetched, exported>>
rowsVars == <<ships_table, all_rows>>
cellVars == <<row_element, cell_out>>
locVars == <<ship_page, loc_out>>
viewVars == <<file_name, view_match, view, view_again, vpc>>
vars == <<pipeVars, rowsVars, cellVars, locVars, viewVars>>

(***************************************************************************)
(* Bounds                                                                  *)
(***************************************************************************)
MaxTableRows == 3 \* tr elements in a listing table given to extract_rows
NShips == 1       \* ships in the listing of the full pipeline
MaxImgs == 1      \* figures in one in-space panel
MaxArticles == 2  \* article sub-panels in one container
MaxSkip == 0      \* siblings that precede the container

(***************************************************************************)
(* Strings                                                                 *)
(***************************************************************************)
None == <<>>

UpperCase == {"A","B","C","D","E","F","G","H","I","J","K","L","M","N","O","P","Q","R","S","T","U","V","W","X","Y","Z"}
LowerCase == {"a","b","c","d","e","f","g","h","i","j","k","l","m","n","o","p","q","r","s","t","u","v","w","x","y","z"}
Letters == UpperCase \cup LowerCase
Digits == {"0","1","2","3","4","5","6","7","8","9"}
WhiteSpace == {" ", "\t", "\n", "\r", "\f"}

STAR_CITIZEN_WIKI_ROOT == <<"h","t","t","p","s",":","/","/","s","t","a","r","c","i","t","i","z","e","n",".","t","o","o","l","s">>
HardDestination == <<"d","a","t","a","/","i","m","a","g","e","s">>
JPG == <<".","j","p","g">>
PNG == <<".","p","n","g">>
Isometric == <<"I","s","o","m","e","t","r","i","c">>
Isometirc == <<"I","s","o","m","e","t","i","r","c">>
Isometrric == <<"I","s","o","m","e","t","r","r","i","c">>
Above == <<"A","b","o","v","e">>
Port == <<"P","o","r","t">>
Front == <<"F","r","o","n","t">>
Rear == <<"R","e","a","r">>
Below == <<"B","e","l","o","w">>
NameKey == <<"N","a","m","e">>

Min(S) == CHOOSE x \in S : \A y \in S : x <= y
Max(S) == CHOOSE x \in S : \A y \in S : x >= y

\* s[i:] begins with w (1-based i)
HasAt(s, i, w) ==
    /\ i >= 1
    /\ i + Len(w) - 1 <= Len(s)
    /\ \A k \in 1..Len(w) : s[i + k - 1] = w[k]

\* os.path.basename: what follows the last "/"
basename(p) ==
    LET slashes == {i \in 1..Len(p) : p[i] = "/"}
    IN  IF slashes = {} THEN p ELSE SubSeq(p, Max(slashes) + 1, Len(p))

\* os.path.join of two components
path_join(a, b) ==
    IF Len(b) > 0 /\ b[1] = "/" THEN b
    ELSE IF Len(a) = 0 \/ a[Len(a)] = "/" THEN a \o b
    ELSE a \o <<"/">> \o b

(***************************************************************************)
(* pattern = re.compile("([A-Za-z])+(?=\.jpg|\.png)"); pattern.search(s)   *)
(* The leftmost start wins; at a start the greedy run is shortened until   *)
(* the lookahead succeeds.  view_match[0] is the whole match.              *)
(***************************************************************************)
LookAhead(s, i) == HasAt(s, i, JPG) \/ HasAt(s, i, PNG)

\* the positions at which the lookahead succeeds
LookAheadEnds(s) == {e \in 1..Len(s) : s[e] = "." /\ LookAhead(s, e)}

\* the lengths k for which s[i..i+k-1] are letters followed by a position
\* of ends
MatchLens(s, i, ends) ==
    {e - i : e \in {x \in ends : x > i /\ \A n \in i..(x - 1) : s[n] \in Letters}}

pattern_search(s) ==
    LET ends == LookAheadEnds(s)
        starts == IF ends = {} THEN {}
                  ELSE {i \in 1..Len(s) : s[i] \in Letters /\ MatchLens(s, i, ends) # {}}
    IN  IF starts = {} THEN [found |-> FALSE, m |-> None]
        ELSE LET i == Min(starts)
                 k == Max(MatchLens(s, i, ends))
             IN  [found |-> TRUE, m |-> SubSeq(s, i, i + k - 1)]

view_fault_tolerance_swapped(v) ==
    IF v = Isometirc THEN Isometrric
    ELSE IF v = Isometrric THEN Isometric
    ELSE v

view_fault_tolerance(v) ==
    IF v = Isometirc THEN Isometric
    ELSE IF v = Isometrric THEN Isometric
    ELSE v

\* the keys of the img_data dict
ViewCategories == {Isometric, Above, Port, Front, Rear, Below}
ImgDataKeys == {NameKey} \cup ViewCategories

(***************************************************************************)
(* Results of Python calls: a value, or the exception that propagated.     *)
(***************************************************************************)
Ok(v) == [exc |-> "none", val |-> v]
Raise(e) == [exc |-> e, val |-> None]

(***************************************************************************)
(* The listing table.  A tr element carries its style classes and its td   *)
(* cells; a numeric td may be absent, or present without the               *)
(* data-sort-value attribute, or present with it.                          *)
(***************************************************************************)
CellAbsent == [td |-> FALSE, has |-> FALSE, sort |-> None]
CellNoAttr == [td |-> TRUE, has |-> FALSE, sort |-> None]
CellSort(s) == [td |-> TRUE, has |-> TRUE, sort |-> s]

\* float(s) for the unsigned decimal integers the model uses as sort
\* values; any other text raises ValueError.
DigitVal(c) ==
    CASE c = "0" -> 0 [] c = "1" -> 1 [] c = "2" -> 2 [] c = "3" -> 3
      [] c = "4" -> 4 [] c = "5" -> 5 [] c = "6" -> 6 [] c = "7" -> 7
      [] c = "8" -> 8 [] c = "9" -> 9

RECURSIVE DecVal(_)
DecVal(s) ==
    IF Len(s) = 0 THEN 0
    ELSE 10 * DecVal(SubSeq(s, 1, Len(s) - 1)) + DigitVal(s[Len(s)])

float(s) ==
    IF Len(s) > 0 /\ \A i \in 1..Len(s) : s[i] \in Digits
    THEN Ok(DecVal(s))
    ELSE Raise("ValueError")

\* float(row_element.find("td", cls)["data-sort-value"])
sort_value(cell) ==
    IF ~cell.td THEN Raise("TypeError")          \* None["data-sort-value"]
    ELSE IF ~cell.has THEN Raise("KeyError")     \* Tag.__getitem__
    ELSE float(cell.sort)

\* try: ... except KeyError: return -1
sort_value_or_sentinel_no_catch(cell) == sort_value(cell)

sort_value_or_sentinel(cell) ==
    LET r == sort_value(cell)
    IN  IF r.exc = "KeyError" THEN Ok(-1) ELSE r

extract_cell_Name(row) == Ok(row.Name.title)
extract_cell_Wiki(row) == Ok(STAR_CITIZEN_WIKI_ROOT \o row.Name.href)
extract_cell_Manufacturer(row) == Ok(row.Manufacturer.title)
extract_cell_Size(row) == Ok(row.Size)
extract_cell_Length(row) == sort_value(row.Length)
extract_cell_Width(row) == sort_value(row.Width)
extract_cell_Height(row) == sort_value(row.Height)
extract_cell_Max_speed(row) == sort_value_or_sentinel(row.MaxSpeed)
extract_cell_SCM_speed(row) == sort_value_or_sentinel(row.SCMSpeed)
extract_cell_0_SCM_time(row) == sort_value_or_sentinel(row.ZeroSCMTime)

\* the keys of the OrderedDict, in insertion order
SHIPS_TABLES_DEF ==
    <<"Name", "Wiki", "Manufacturer", "Size", "Length (m)", "Width (m)",
      "Height (m)", "Max speed (m/s)", "SCM speed (m/s)", "0-SCM time (s)">>

\* columns[column](row_element)
ApplyColumn(column, row) ==
    CASE column = "Name" -> extract_cell_Name(row)
      [] column = "Wiki" -> extract_cell_Wiki(row)
      [] column = "Manufacturer" -> extract_cell_Manufacturer(row)
      [] column = "Size" -> extract_cell_Size(row)
      [] column = "Length (m)" -> extract_cell_Length(row)
      [] column = "Width (m)" -> extract_cell_Width(row)
      [] column = "Height (m)" -> extract_cell_Height(row)
      [] column = "Max speed (m/s)" -> extract_cell_Max_speed(row)
      [] column = "SCM speed (m/s)" -> extract_cell_SCM_speed(row)
      [] column = "0-SCM time (s)" -> extract_cell_0_SCM_time(row)

\* the first extractor that raises ends the loop
extract_row(row, columns) ==
    LET res == [c \in 1..Len(columns) |-> ApplyColumn(columns[c], row)]
        bad == {c \in 1..Len(columns) : res[c].exc # "none"}
    IN  IF bad = {} THEN Ok([c \in 1..Len(columns) |-> res[c].val])
        ELSE Raise(res[Min(bad)].exc)

\* ships_table.find_all("tr", cls): the rows carrying cls, document order
RECURSIVE find_all(_, _)
find_all(table, cls) ==
    IF Len(table) = 0 THEN <<>>
    ELSE LET rest == find_all(SubSeq(table, 2, Len(table)), cls)
         IN  IF cls \in table[1].class THEN <<table[1]>> \o rest ELSE rest

\* the indices (0-based) selected by the extended slice [start::2] of a
\* list of length n
SliceIndices(n, start) == {i \in 0..(n - 1) : i >= start /\ (i - start) % 2 = 0}

\* lst[start::2] = src; ValueError unless the sizes agree
SliceAssign(lst, start, src) ==
    LET ind == SliceIndices(Len(lst), start)
    IN  IF Len(src) # Cardinality(ind) THEN Raise("ValueError")
        ELSE Ok([p \in 1..Len(lst) |->
                    IF (p - 1) \in ind THEN src[((p - 1 - start) \div 2) + 1]
                    ELSE lst[p]])

\* the rows of a list comprehension over extract_row; the first exception
\* propagates
ExtractAll(rows, columns) ==
    LET res == [i \in 1..Len(rows) |-> extract_row(rows[i], columns)]
        bad == {i \in 1..Len(rows) : res[i].exc # "none"}
    IN  IF bad = {} THEN Ok([i \in 1..Len(rows) |-> res[i].val])
        ELSE Raise(res[Min(bad)].exc)

extract_rows_even_first(table, columns) ==
    LET even == ExtractAll(find_all(table, "row-even"), columns)
        odd == ExtractAll(find_all(table, "row-odd"), columns)
    IN  IF even.exc # "none" THEN even
        ELSE IF odd.exc # "none" THEN odd
        ELSE LET blank == [p \in 1..(Len(even.val) + Len(odd.val)) |-> None]
                 first == SliceAssign(blank, 0, even.val)
             IN  IF first.exc # "none" THEN first
                 ELSE SliceAssign(first.val, 1, odd.val)

extract_rows(table, columns) ==
    LET even == ExtractAll(find_all(table, "row-even"), columns)
        odd == ExtractAll(find_all(table, "row-odd"), columns)
    IN  IF even.exc # "none" THEN even
        ELSE IF odd.exc # "none" THEN odd
        ELSE LET blank == [p \in 1..(Len(even.val) + Len(odd.val)) |-> None]
                 first == SliceAssign(blank, 0, odd.val)
             IN  IF first.exc # "none" THEN first
                 ELSE SliceAssign(first.val, 1, even.val)

\* A well-formed row of the listing for ship number n
ShipName(n) == <<"S", CHOOSE d \in Digits : DigitVal(d) = n>>
ShipHref(n) == <<"/">> \o ShipName(n)
MkRow(cls, n, len, ms, scm, zt) ==
    [class |-> cls,
     Name |-> [title |-> ShipName(n), href |-> ShipHref(n)],
     Manufacturer |-> [title |-> <<"R","S","I">>],
     Size |-> <<"S">>,
     Length |-> len, Width |-> CellSort(<<"8">>), Height |-> CellSort(<<"3">>),
     MaxSpeed |-> ms, SCMSpeed |-> scm, ZeroSCMTime |-> zt]

(***************************************************************************)
(* The detail page.  anchor: a span with id Ship_profile exists.           *)
(* siblings: the elements that follow the anchor's parent; each has a tag  *)
(* name, a class list and article descendants; an article has an optional  *)
(* data-title and figure descendants; a figure has its typeof and the      *)
(* "internal" link of the media page its anchor leads to.                  *)
(***************************************************************************)
\* re.compile("In[\s|-]space").search(title): inside the brackets the bar
\* is a literal character
InSpaceSeparators == WhiteSpace \cup {"|", "-"}

InSpaceSearch_no_bar(title) ==
    \E i \in 1..Len(title) :
        /\ HasAt(title, i, <<"I","n">>)
        /\ i + 2 <= Len(title)
        /\ title[i + 2] \in WhiteSpace \cup {"-"}
        /\ HasAt(title, i + 3, <<"s","p","a","c","e">>)

InSpaceSearch(title) ==
    \E i \in 1..Len(title) :
        /\ HasAt(title, i, <<"I","n">>)
        /\ i + 2 <= Len(title)
        /\ title[i + 2] \in InSpaceSeparators
        /\ HasAt(title, i + 3, <<"s","p","a","c","e">>)

find_table_wrap(tag) ==
    /\ tag.name = "div"
    /\ tag.class # {}
    /\ ("tabber" \in tag.class \/ "citizen-table-wrapper" \in tag.class)

\* ship_profile_header.parent.find_next_sibling(find_table_wrap):
\* index of the first sibling that passes, 0 for None
find_next_sibling(siblings) ==
    LET hits == {i \in 1..Len(siblings) : find_table_wrap(siblings[i])}
    IN  IF hits = {} THEN 0 ELSE Min(hits)

\* container.find("article", attrs={"data-title": pattern}):
\* index of the first article that matches, 0 for None
find_article(articles) ==
    LET hits == {i \in 1..Len(articles) :
                    articles[i].has_title /\ InSpaceSearch(articles[i].title)}
    IN  IF hits = {} THEN 0 ELSE Min(hits)

\* img_table.find_all("figure", attrs={"typeof": "mw:File/Frameless"})
RECURSIVE find_figures(_)
find_figures(figures) ==
    IF Len(figures) = 0 THEN <<>>
    ELSE LET rest == find_figures(SubSeq(figures, 2, Len(figures)))
         IN  IF figures[1].typeof = "mw:File/Frameless"
             THEN <<figures[1]>> \o rest ELSE rest

LocResult(isnone, srcs, loads, table) ==
    [exc |-> "none", none |-> isnone, srcs |-> srcs, loads |-> loads,
     img_table |-> table]

get_in_space_image_src_empty_for_none(page) ==
    IF ~page.anchor THEN LocResult(FALSE, <<>>, 0, 0)
    ELSE LET sib == find_next_sibling(page.siblings)
             art == IF sib = 0 THEN 0
                    ELSE find_article(page.siblings[sib].articles)
         IN  IF art = 0 THEN LocResult(FALSE, <<>>, 0, 0)
             ELSE LET figs == find_figures(page.siblings[sib].articles[art].figures)
                  IN  LocResult(FALSE, [k \in 1..Len(figs) |-> figs[k].internal],
                                Len(figs), art)

get_in_space_image_src(page) ==
    IF ~page.anchor THEN LocResult(TRUE, <<>>, 0, 0)      \* return None
    ELSE LET sib == find_next_sibling(page.siblings)
             \* None.find(...) raises AttributeError, which is caught
             art == IF sib = 0 THEN 0
                    ELSE find_article(page.siblings[sib].articles)
         IN  IF art = 0 THEN LocResult(FALSE, <<>>, 0, 0)
             ELSE LET figs == find_figures(page.siblings[sib].articles[art].figures)
                  IN  \* one load_page(media_page_url) per figure
                      LocResult(FALSE, [k \in 1..Len(figs) |-> figs[k].internal],
                                Len(figs), art)

(***************************************************************************)
(* Inputs                                                                  *)
(***************************************************************************)
\* all sequences over S of length at most n
RECURSIVE SeqsUpTo(_, _)
SeqsUpTo(S, n) ==
    IF n = 0 THEN {<<>>}
    ELSE LET shorter == SeqsUpTo(S, n - 1)
         IN  shorter \cup {Append(q, x) : q \in {r \in shorter : Len(r) = n - 1}, x \in S}

Pending == [exc |-> "pending", val |-> None]

OptionalCells == {CellAbsent, CellNoAttr, CellSort(<<"1","2">>), CellSort(<<"x">>)}

\* tr elements: two ships in either style class, a header row, and a row
\* whose Length cell has no data-sort-value
TableRowPool ==
    {MkRow({cls}, 1, CellSort(<<"7">>), CellNoAttr, CellSort(<<"1","2">>), CellNoAttr) :
        cls \in {"row-odd", "row-even"}}
    \cup {MkRow({cls}, 2, CellSort(<<"9">>), CellSort(<<"3","0">>), CellNoAttr, CellSort(<<"4">>)) :
        cls \in {"row-odd", "row-even"}}
    \cup {MkRow({}, 3, CellSort(<<"1">>), CellNoAttr, CellNoAttr, CellNoAttr)}
    \cup {MkRow({"row-even"}, 4, CellNoAttr, CellNoAttr, CellNoAttr, CellNoAttr)}

MediaRoot == <<"h",":","/","/","m","/">>
Figure(t, file) == [typeof |-> t, internal |-> MediaRoot \o file]
Article(has, t, figs) == [has_title |-> has, title |-> t, figures |-> figs]
OtherElement == [name |-> "p", class |-> {}, articles |-> <<>>]
Container(cls, arts) == [name |-> "div", class |-> {cls}, articles |-> arts]

InSpaceTitle == <<"I","n","-","s","p","a","c","e">>
TitlePool ==
    { InSpaceTitle,
      <<"I","n"," ","s","p","a","c","e">>,
      <<"i","n","-","s","p","a","c","e">>,
      <<"I","N"," ","S","P","A","C","E">>,
      <<"I","n","|","s","p","a","c","e">>,
      <<"I","n","_","s","p","a","c","e">>,
      <<"I","n","-","s","p","a","c","e"," ","2">> }

FrontJpg == Front \o JPG
AboveThumb == Above \o PNG
DefaultFigures == <<Figure("mw:File/Frameless", FrontJpg)>>
MixedFigures ==
    <<Figure("mw:File/Thumb", AboveThumb), Figure("mw:File/Frameless", FrontJpg),
      Figure("mw:File/Frameless", Rear \o PNG)>>

ArticlePool ==
    {Article(TRUE, t, DefaultFigures) : t \in TitlePool}
    \cup {Article(FALSE, None, DefaultFigures)}
    \cup {Article(TRUE, InSpaceTitle, MixedFigures)}

DecoyContainer == Container("tabber", <<Article(TRUE, InSpaceTitle, <<Figure("mw:File/Frameless", Rear \o JPG)>>)>>)

\* k other elements, then at most one container, then possibly a second one
SiblingLists ==
    LET lead == {[i \in 1..k |-> OtherElement] : k \in 0..MaxSkip}
        conts == {Container(c, a) : c \in {"tabber", "citizen-table-wrapper", "gallery"},
                                    a \in SeqsUpTo(ArticlePool, MaxArticles)}
    IN  lead \cup {l \o <<c>> : l \in lead, c \in conts}
             \cup {l \o <<c, DecoyContainer>> : l \in lead, c \in conts}

Pages == {[anchor |-> a, siblings |-> s] : a \in BOOLEAN, s \in SiblingLists}

Stems == {<<>>, <<"A","1","_">>, <<"x",".","p","n","g","-">>}
Tokens == ViewCategories \cup {Isometirc, Isometrric, NameKey, <<"S","i","d","e">>, <<"2">>}
Extensions == {JPG, PNG, <<".","g","i","f">>, <<".","j","p","g",".","b","a","k">>}
FileNames == {st \o t \o e : st \in Stems, t \in Tokens, e \in Extensions}

(***************************************************************************)
(* Idle values of the variables a specification does not use               *)
(***************************************************************************)
PipeIdle ==
    /\ site = <<>>
    /\ pc = "off" /\ prev = "none" /\ overwrite = FALSE
    /\ args_destination = None /\ destination = None /\ ships_data = <<>> /\ img_data = <<>>
    /\ idx = 0 /\ img_srcs = <<>> /\ j = 0 /\ fs = <<>> /\ fetched = <<>>
    /\ exported = {}
RowsIdle == ships_table = <<>> /\ all_rows = Pending
CellIdle == row_element = <<>> /\ cell_out = [col |-> "", res |-> Pending]
LocIdle == ship_page = <<>> /\ loc_out = Pending
ViewIdle ==
    /\ file_name = None /\ view_match = [found |-> FALSE, m |-> None]
    /\ view = None /\ view_again = None /\ vpc = "off"

(***************************************************************************)
(* extract_rows applied to a listing table                                 *)
(***************************************************************************)
InitRows ==
    /\ ships_table \in SeqsUpTo(TableRowPool, MaxTableRows)
    /\ all_rows = Pending
    /\ PipeIdle /\ CellIdle /\ LocIdle /\ ViewIdle

ExtractRows ==
    /\ all_rows = Pending
    /\ all_rows' = extract_rows(ships_table, SHIPS_TABLES_DEF)
    /\ UNCHANGED <<ships_table, pipeVars, cellVars, locVars, viewVars>>

NextRows == ExtractRows
SpecRows == InitRows /\ [][NextRows]_vars

(***************************************************************************)
(* the numeric cell extractors applied to a row                            *)
(***************************************************************************)
InitCell ==
    /\ row_element \in {MkRow({"row-odd"}, 1, len, ms, scm, zt) :
                            len \in {CellNoAttr, CellSort(<<"7">>)},
                            ms \in OptionalCells, scm \in OptionalCells,
                            zt \in OptionalCells}
    /\ cell_out = [col |-> "", res |-> Pending]
    /\ PipeIdle /\ RowsIdle /\ LocIdle /\ ViewIdle

CallExtractor(column) ==
    /\ cell_out.col = ""
    /\ cell_out' = [col |-> column, res |-> ApplyColumn(column, row_element)]
    /\ UNCHANGED <<row_element, pipeVars, rowsVars, locVars, viewVars>>

ExtractLength == CallExtractor("Length (m)")
ExtractMaxSpeed == CallExtractor("Max speed (m/s)")
ExtractSCMSpeed == CallExtractor("SCM speed (m/s)")
ExtractZeroSCMTime == CallExtractor("0-SCM time (s)")

NextCell == ExtractLength \/ ExtractMaxSpeed \/ ExtractSCMSpeed \/ ExtractZeroSCMTime
SpecCell == InitCell /\ [][NextCell]_vars

(***************************************************************************)
(* get_in_space_image_src applied to a detail page                         *)
(***************************************************************************)
InitLocate ==
    /\ ship_page \in Pages
    /\ loc_out = Pending
    /\ PipeIdle /\ RowsIdle /\ CellIdle /\ ViewIdle

Locate ==
    /\ loc_out = Pending
    /\ loc_out' = get_in_space_image_src(ship_page)
    /\ UNCHANGED <<ship_page, pipeVars, rowsVars, cellVars, viewVars>>

NextLocate == Locate
SpecLocate == InitLocate /\ [][NextLocate]_vars

(***************************************************************************)
(* pattern.search and view_fault_tolerance applied to a file name          *)
(***************************************************************************)
InitView ==
    /\ file_name \in FileNames
    /\ view_match = [found |-> FALSE, m |-> None]
    /\ view = None /\ view_again = None /\ vpc = "path"
    /\ PipeIdle /\ RowsIdle /\ CellIdle /\ LocIdle

Search ==
    /\ vpc = "path"
    /\ view_match' = pattern_search(path_join(HardDestination, file_name))
    /\ vpc' = IF view_match'.found THEN "matched" ELSE "discarded"
    /\ UNCHANGED <<file_name, view, view_again, pipeVars, rowsVars, cellVars, locVars>>

Correct ==
    /\ vpc = "matched"
    /\ view' = view_fault_tolerance(view_match.m)
    /\ vpc' = "corrected"
    /\ UNCHANGED <<file_name, view_match, view_again, pipeVars, rowsVars, cellVars, locVars>>

CorrectAgain ==
    /\ vpc = "corrected"
    /\ view_again' = view_fault_tolerance(view)
    /\ vpc' = "again"
    /\ UNCHANGED <<file_name, view_match, view, pipeVars, rowsVars, cellVars, locVars>>

NextView == Search \/ Correct \/ CorrectAgain
SpecView == InitView /\ [][NextView]_vars

(***************************************************************************)
(* Properties of extract_rows                                              *)
(***************************************************************************)
OddRowNodes == find_all(ships_table, "row-odd")
EvenRowNodes == find_all(ships_table, "row-even")

\* position 2i holds the record of the i-th odd-class row and position
\* 2i+1 the record of the i-th even-class row (positions counted from 0)
Alternates(out) ==
    /\ Len(out) = Len(OddRowNodes) + Len(EvenRowNodes)
    /\ \A i \in 0..(Len(OddRowNodes) - 1) :
          out[2 * i + 1] = extract_row(OddRowNodes[i + 1], SHIPS_TABLES_DEF).val
    /\ \A i \in 0..(Len(EvenRowNodes) - 1) :
          out[2 * i + 2] = extract_row(EvenRowNodes[i + 1], SHIPS_TABLES_DEF).val

\* every row of either class has a record: all its cells can be extracted
RowsHaveRecords ==
    \A i \in 1..Len(ships_table) :
        ships_table[i].class # {}
        => extract_row(ships_table[i], SHIPS_TABLES_DEF).exc = "none"

\* C1 as stated: for N odd-class rows and M even-class rows with M in
\* {N-1, N, N+1}, extract_rows returns without failing and the result
\* alternates, starting with an odd-class row.
C1_AlternatesForNPlusMinusOne ==
    (all_rows.exc # "pending" /\ RowsHaveRecords
        /\ Len(EvenRowNodes) - Len(OddRowNodes) \in {-1, 0, 1})
    => (all_rows.exc = "none" /\ Alternates(all_rows.val))

\* C1 amended: extract_rows returns the alternating sequence when M is N or
\* N-1; when M is N+1 the first slice assignment raises ValueError.
C1_AlternatesForNOrNMinusOne ==
    /\ (all_rows.exc # "pending" /\ RowsHaveRecords
          /\ Len(EvenRowNodes) - Len(OddRowNodes) \in {-1, 0})
       => (all_rows.exc = "none" /\ Alternates(all_rows.val))
    /\ (all_rows.exc # "pending" /\ RowsHaveRecords
          /\ Len(EvenRowNodes) - Len(OddRowNodes) = 1)
       => all_rows.exc = "ValueError"

C1_Witness ==
    /\ all_rows.exc = "none"
    /\ Len(OddRowNodes) = 2 /\ Len(EvenRowNodes) = 1
    /\ OddRowNodes[1] # OddRowNodes[2]
    /\ Len(all_rows.val) = 3

(***************************************************************************)
(* Properties of the optional numeric extractors                           *)
(***************************************************************************)
OptionalColumns == {"Max speed (m/s)", "SCM speed (m/s)", "0-SCM time (s)"}
CellOf(row, column) ==
    CASE column = "Max speed (m/s)" -> row.MaxSpeed
      [] column = "SCM speed (m/s)" -> row.SCMSpeed
      [] column = "0-SCM time (s)" -> row.ZeroSCMTime

\* C5: each optional extractor, applied to a row whose cell lacks the
\* data-sort-value attribute, returns the sentinel -1 and does not raise.
C5_MissingSortValueGivesSentinel ==
    \A column \in OptionalColumns :
        (cell_out.col = column
            /\ CellOf(row_element, column).td
            /\ ~CellOf(row_element, column).has)
        => (cell_out.res.exc = "none" /\ cell_out.res.val = -1)

C5_Witness ==
    /\ cell_out.col = "SCM speed (m/s)"
    /\ row_element.SCMSpeed = CellNoAttr
    /\ cell_out.res.exc = "none"
    /\ cell_out.res.val = -1

(***************************************************************************)
(* Properties of get_in_space_image_src                                    *)
(***************************************************************************)
NoContainer(page) ==
    \A i \in 1..Len(page.siblings) : ~find_table_wrap(page.siblings[i])

NoPanel(page) ==
    /\ ~NoContainer(page)
    /\ LET c == page.siblings[find_next_sibling(page.siblings)]
       IN  \A a \in 1..Len(c.articles) :
              ~(c.articles[a].has_title /\ InSpaceSearch(c.articles[a].title))

\* C6: the locator returns None exactly when the page has no Ship_profile
\* anchor; with the anchor but no container sibling or no in-space panel it
\* returns the empty list without an error; neither case loads a media page.
C6_LocatorOutcomes ==
    loc_out.exc # "pending" =>
        /\ loc_out.none <=> ~ship_page.anchor
        /\ (ship_page.anchor /\ (NoContainer(ship_page) \/ NoPanel(ship_page)))
           => (loc_out.exc = "none" /\ ~loc_out.none /\ loc_out.srcs = <<>>)
        /\ (~ship_page.anchor \/ NoContainer(ship_page) \/ NoPanel(ship_page))
           => loc_out.loads = 0

C6_Witness ==
    /\ loc_out.exc = "none"
    /\ ship_page.anchor
    /\ NoPanel(ship_page)
    /\ ~loc_out.none
    /\ loc_out.srcs = <<>>

AlphabetUpper == <<"A","B","C","D","E","F","G","H","I","J","K","L","M","N","O","P","Q","R","S","T","U","V","W","X","Y","Z">>
AlphabetLower == <<"a","b","c","d","e","f","g","h","i","j","k","l","m","n","o","p","q","r","s","t","u","v","w","x","y","z">>
LowerChar(c) ==
    IF c \in UpperCase
    THEN AlphabetLower[CHOOSE i \in 1..26 : AlphabetUpper[i] = c]
    ELSE c
LowerCased(t) == [i \in 1..Len(t) |-> LowerChar(t[i])]

\* index of the first article whose title satisfies P, 0 when there is none
FirstTitled(articles, P(_)) ==
    LET hits == {a \in 1..Len(articles) :
                    articles[a].has_title /\ P(articles[a].title)}
    IN  IF hits = {} THEN 0 ELSE Min(hits)

\* the title is "in", one hyphen or whitespace character, "space", in any
\* letter case
TitleIsInSpaceAnyCase(t) ==
    /\ Len(t) = 8
    /\ SubSeq(LowerCased(t), 1, 2) = <<"i","n">>
    /\ t[3] \in WhiteSpace \cup {"-"}
    /\ SubSeq(LowerCased(t), 4, 8) = <<"s","p","a","c","e">>

\* the title contains "In", one whitespace, hyphen or bar character, "space",
\* in exactly this letter case
TitleContainsInSpace(t) ==
    \E i \in 1..(Len(t) - 7) :
        SubSeq(t, i, i + 7) \in
            {<<"I","n",c,"s","p","a","c","e">> : c \in WhiteSpace \cup {"-", "|"}}

LocatedContainer == ship_page.siblings[find_next_sibling(ship_page.siblings)]

\* C8 as stated: the selected sub-panel is the first one whose title is
\* "in", a hyphen or whitespace separator, "space", compared without regard
\* to letter case.
C8_SelectsCaseInsensitiveTitle ==
    (loc_out.exc = "none" /\ ship_page.anchor /\ ~NoContainer(ship_page))
    => loc_out.img_table = FirstTitled(LocatedContainer.articles, TitleIsInSpaceAnyCase)

\* C8 amended: the selected sub-panel is the first one whose title contains
\* "In", then one whitespace, hyphen or vertical-bar character, then
\* "space", with exactly that letter case.
C8_SelectsCaseSensitiveSubstring ==
    (loc_out.exc = "none" /\ ship_page.anchor /\ ~NoContainer(ship_page))
    => loc_out.img_table = FirstTitled(LocatedContainer.articles, TitleContainsInSpace)

C8_Witness ==
    /\ loc_out.exc = "none" /\ ship_page.anchor /\ ~NoContainer(ship_page)
    /\ loc_out.img_table = 2
    /\ LocatedContainer.articles[1].title = <<"i","n","-","s","p","a","c","e">>
    /\ LocatedContainer.articles[2].title = <<"I","n"," ","s","p","a","c","e">>

(***************************************************************************)
(* Properties of view_fault_tolerance                                      *)
(***************************************************************************)
\* C7: correcting a corrected token changes nothing; the six view tokens
\* are returned unchanged; both known misspellings become Isometric.
C7_TypoCorrectionIdempotent ==
    /\ vpc = "again" => view_again = view
    /\ (vpc \in {"corrected", "again"} /\ view_match.m \in ViewCategories)
       => view = view_match.m
    /\ (vpc \in {"corrected", "again"} /\ view_match.m \in {Isometirc, Isometrric})
       => view = Isometric

C7_Witness ==
    /\ vpc = "again"
    /\ view_match.m = Isometrric
    /\ view = Isometric
    /\ view_again = Isometric

(***************************************************************************)
(* The script: __main__, get_ships_data, download_images, download_image   *)
(***************************************************************************)
\* the listing page: NShips rows, alternating, the first of class row-odd
ListingTable ==
    [n \in 1..NShips |->
        MkRow({IF n % 2 = 1 THEN "row-odd" ELSE "row-even"}, n,
              CellSort(<<"7">>), CellNoAttr, CellSort(<<"1","2">>), CellNoAttr)]

WikiUrls == {STAR_CITIZEN_WIKI_ROOT \o ShipHref(n) : n \in 1..NShips}

\* image files the wiki may hold: a view token, a misspelt one, the token
\* Name, an unknown token, and a name without a token
SiteFiles ==
    { <<"A","_">> \o Front \o JPG,
      <<"A","_">> \o Isometirc \o PNG,
      <<"A","_">> \o NameKey \o JPG,
      <<"A","_">> \o <<"S","i","d","e">> \o JPG,
      <<"A","_","2">> \o JPG }

SitePages ==
    {[anchor |-> FALSE, siblings |-> <<>>]}
    \cup {[anchor |-> TRUE,
           siblings |-> <<Container("tabber", <<Article(TRUE, InSpaceTitle, figs)>>)>>] :
            figs \in SeqsUpTo({Figure("mw:File/Frameless", f) : f \in SiteFiles}, MaxImgs)}

\* the wiki serves the same page for a URL every time
NotLoaded == [loaded |-> FALSE, page |-> [anchor |-> FALSE, siblings |-> <<>>]]
Served(pg) == [loaded |-> TRUE, page |-> pg]

ArgDestinations == {<<"d","a","t","a">>, <<"o","u","t">>}

\* get_ships_data: the DataFrame rows; a row's name and Wiki columns
get_ships_data == extract_rows(ListingTable, SHIPS_TABLES_DEF).val
NameOf(ship) == ship[1]
WikiOf(ship) == ship[2]

Init ==
    /\ site = [u \in WikiUrls |-> NotLoaded]
    /\ pc = "idle" /\ prev = "none" /\ overwrite = FALSE
    /\ args_destination = None /\ destination = None
    /\ ships_data = <<>> /\ img_data = <<>>
    /\ idx = 0 /\ img_srcs = <<>> /\ j = 0
    /\ fs = <<>> /\ fetched = <<>> /\ exported = {}
    /\ RowsIdle /\ CellIdle /\ LocIdle /\ ViewIdle

others == <<rowsVars, cellVars, locVars, viewVars>>

\* the script is started: parse_args, get_ships_data, and download_images
\* up to the head of its loop
StartRun ==
    /\ pc \in {"idle", "done", "error", "killed"}
    /\ prev' = pc
    /\ \E d \in ArgDestinations, o \in BOOLEAN :
          /\ args_destination' = d
          /\ overwrite' = o
    /\ ships_data' = get_ships_data
    /\ destination' = HardDestination
    /\ img_data' = [k \in ImgDataKeys |-> [n \in 1..Len(ships_data') |-> None]]
    /\ idx' = 1 /\ j' = 0 /\ img_srcs' = <<>>
    /\ fetched' = <<>> /\ exported' = {}
    /\ pc' = IF Len(ships_data') = 0 THEN "export" ELSE "ship"
    /\ UNCHANGED <<site, fs, others>>

\* pbar.update() and the next iteration of the loop over the ships
NextShipPc == IF idx = Len(ships_data) THEN "export" ELSE "ship"

\* the head of the loop body: the name is recorded and the detail page is
\* searched for image sources
LoadShip ==
    /\ pc = "ship"
    /\ \E pg \in SitePages :
       LET url == WikiOf(ships_data[idx])
           r == get_in_space_image_src(pg)
       IN  /\ site[url].loaded => pg = site[url].page
           /\ site' = [site EXCEPT ![url] = Served(pg)]
           /\ img_data' = [img_data EXCEPT ![NameKey][idx] = NameOf(ships_data[idx])]
           /\ img_srcs' = r.srcs
           /\ IF Len(r.srcs) > 0
              THEN /\ j' = 1 /\ pc' = "image" /\ idx' = idx
              ELSE /\ j' = 0 /\ pc' = NextShipPc /\ idx' = idx + 1
    /\ UNCHANGED <<prev, overwrite, args_destination, destination,
                   ships_data, fs, fetched, exported, others>>

\* load_page(ship["Wiki"]) raises: the URL is printed and the error raised
\* again
LoadShipFails ==
    /\ pc = "ship"
    /\ img_data' = [img_data EXCEPT ![NameKey][idx] = NameOf(ships_data[idx])]
    /\ pc' = "error"
    /\ UNCHANGED <<site, prev, overwrite, args_destination, destination,
                   ships_data, idx, img_srcs, j, fs, fetched, exported, others>>

img_path == path_join(destination, basename(img_srcs[j]))

ShouldDownload_ignore_overwrite(o, files, path) == path \notin DOMAIN files

ShouldDownload_check_content(o, files, path) ==
    o \/ path \notin DOMAIN files \/ files[path] = "partial"

\* overwrite or not os.path.isfile(img_path)
ShouldDownload(o, files, path) == o \/ path \notin DOMAIN files

\* the next element of zip(img_paths, img_srcs), or the next ship
AfterImage ==
    IF j < Len(img_srcs)
    THEN /\ j' = j + 1 /\ pc' = "image" /\ idx' = idx
    ELSE /\ j' = 0 /\ pc' = NextShipPc /\ idx' = idx + 1

\* one iteration of the loop over the images, up to the call of
\* download_image
Classify ==
    /\ pc = "image"
    /\ LET view_m == pattern_search(img_path)
           v == view_fault_tolerance(view_m.m)
       IN  IF ~view_m.found
           THEN /\ AfterImage
                /\ UNCHANGED img_data
           ELSE IF v \notin DOMAIN img_data
           THEN \* KeyError: printed and raised again
                /\ pc' = "error"
                /\ UNCHANGED <<img_data, idx, j>>
           ELSE /\ img_data' = [img_data EXCEPT ![v][idx] = basename(img_path)]
                /\ IF ShouldDownload(overwrite, fs, img_path)
                   THEN /\ pc' = "get" /\ UNCHANGED <<idx, j>>
                   ELSE AfterImage
    /\ UNCHANGED <<site, prev, overwrite, args_destination, destination,
                   ships_data, img_srcs, fs, fetched, exported, others>>

\* download_image: requests.get(url, stream=True)
Get ==
    /\ pc = "get"
    /\ fetched' = Append(fetched, img_srcs[j])
    /\ pc' = "open"
    /\ UNCHANGED <<site, prev, overwrite, args_destination, destination,
                   ships_data, img_data, idx, img_srcs, j, fs, exported, others>>

\* download_image: the request is issued and requests.get raises
GetFails ==
    /\ pc = "get"
    /\ fetched' = Append(fetched, img_srcs[j])
    /\ pc' = "error"
    /\ UNCHANGED <<site, prev, overwrite, args_destination, destination,
                   ships_data, img_data, idx, img_srcs, j, fs, exported, others>>

WriteFile(files, path, content) ==
    [p \in DOMAIN files \cup {path} |-> IF p = path THEN content ELSE files[p]]

\* download_image: open(file_name, "wb") creates or truncates the file
Open ==
    /\ pc = "open"
    /\ fs' = WriteFile(fs, img_path, "partial")
    /\ pc' = "copy"
    /\ UNCHANGED <<site, prev, overwrite, args_destination, destination,
                   ships_data, img_data, idx, img_srcs, j, fetched, exported, others>>

\* download_image: shutil.copyfileobj runs to the end and the file is closed
Copy ==
    /\ pc = "copy"
    /\ fs' = WriteFile(fs, img_path, "complete")
    /\ AfterImage
    /\ UNCHANGED <<site, prev, overwrite, args_destination, destination,
                   ships_data, img_data, img_srcs, fetched, exported, others>>

\* download_image: the stream breaks during shutil.copyfileobj; the with
\* statement closes the file and the error propagates
CopyFails ==
    /\ pc = "copy"
    /\ pc' = "error"
    /\ UNCHANGED <<site, prev, overwrite, args_destination, destination,
                   ships_data, img_data, idx, img_srcs, j, fs, fetched,
                   exported, others>>

\* ships_data.to_csv; the directory args.destination exists for certain only
\* when os.makedirs("data/images") created it
ExportShips ==
    /\ pc = "export"
    /\ \/ /\ exported' = exported \cup {"ships_data.csv"}
          /\ pc' = "export_img"
       \/ /\ args_destination # <<"d","a","t","a">>
          /\ pc' = "error"
          /\ UNCHANGED exported
    /\ UNCHANGED <<site, prev, overwrite, args_destination, destination,
                   ships_data, img_data, idx, img_srcs, j, fs, fetched, others>>

\* img_data.to_csv
ExportImages ==
    /\ pc = "export_img"
    /\ exported' = exported \cup {"img_data.csv"}
    /\ pc' = "done"
    /\ UNCHANGED <<site, prev, overwrite, args_destination, destination,
                   ships_data, img_data, idx, img_srcs, j, fs, fetched, others>>

\* the process is interrupted: its memory is gone, the files stay as they
\* are, nothing cleans up
Interrupt ==
    /\ pc \in {"ship", "image", "get", "open", "copy", "export", "export_img"}
    /\ pc' = "killed"
    /\ ships_data' = <<>> /\ img_data' = <<>>
    /\ idx' = 0 /\ img_srcs' = <<>> /\ j' = 0
    /\ fetched' = <<>> /\ exported' = {}
    /\ overwrite' = FALSE /\ args_destination' = None /\ destination' = None
    /\ UNCHANGED <<site, prev, fs, others>>

Next ==
    \/ StartRun \/ LoadShip \/ LoadShipFails \/ Classify
    \/ Get \/ GetFails \/ Open \/ Copy \/ CopyFails
    \/ ExportShips \/ ExportImages \/ Interrupt

Spec == Init /\ [][Next]_vars

(***************************************************************************)
(* Properties of download_images                                           *)
(***************************************************************************)
\* the view token of the image at hand, raw and corrected
CurMatch == pattern_search(img_path)
CurView == view_fault_tolerance(CurMatch.m)
\* a step of the loop over the images that is not an interruption
ImageStep == pc = "image" /\ pc' # "killed"
\* the destination the caller passed: os.path.join(args.destination, "images")
CallerDestination == path_join(args_destination, <<"i","m","a","g","e","s">>)

\* C2: a file name with a view token is stored in the image record exactly
\* when the corrected token is one of the six view categories, under that
\* category only; for any other token no field of the record changes.
C2_StoredIffViewCategory ==
    [][(ImageStep /\ CurMatch.found) =>
          IF CurView \in ViewCategories
          THEN img_data' = [img_data EXCEPT ![CurView][idx] = basename(img_srcs[j])]
          ELSE img_data' = img_data]_vars

\* C3: with overwrite false a classified image whose file exists is not
\* fetched, so a run after a completed run fetches nothing; with overwrite
\* true every classified image is fetched, whether or not its file exists.
C3_DownloadIdempotence ==
    [][/\ (ImageStep /\ CurMatch.found /\ CurView \in ViewCategories
             /\ ~overwrite /\ img_path \in DOMAIN fs)
          => (pc' # "get" /\ fetched' = fetched /\ fs' = fs)
       /\ (ImageStep /\ CurMatch.found /\ CurView \in ViewCategories /\ overwrite)
          => pc' = "get"
       /\ (pc = "get" /\ pc' # "killed")
          => fetched' = Append(fetched, img_srcs[j])
       /\ (pc' \in {"ship", "image", "get", "open", "copy", "export",
                   "export_img", "done", "error"}
             /\ prev' = "done" /\ ~overwrite')
          => fetched' = <<>>]_vars

C3_Witness ==
    /\ prev = "done" /\ pc = "done"
    /\ ~overwrite
    /\ fetched = <<>>
    /\ \E v \in ViewCategories : \E n \in 1..Len(ships_data) :
          /\ img_data[v][n] # None
          /\ path_join(destination, img_data[v][n]) \in DOMAIN fs

\* C4: an image whose file name has a view token that, corrected, is not one
\* of the six view categories ends download_images with a lookup error:
\* the image is not downloaded and no table is exported.
C4_UnknownTokenIsFatal ==
    [][(ImageStep /\ CurMatch.found /\ CurView \notin ViewCategories)
          => (pc' = "error" /\ fs' = fs /\ fetched' = fetched /\ exported' = {})]_vars

\* C9: every file that is created or rewritten is
\* destination/<basename of the image URL> for the destination the caller
\* passed to download_images.
C9_WritesUnderCallerDestination ==
    [][\A p \in DOMAIN fs' :
          (p \notin DOMAIN fs \/ fs'[p] # fs[p])
          => p = path_join(CallerDestination, basename(img_srcs[j]))]_vars

\* C10: download_image creates the file before the copy completes and an
\* interruption leaves it truncated; a later run with overwrite false that
\* meets the truncated file fetches nothing, leaves the content as it is and
\* records the file name.
C10_TruncatedFileSurvives ==
    [][/\ (pc = "copy" /\ pc' = "killed")
          => LET p == img_path
             IN  p \in DOMAIN fs /\ fs[p] = "partial" /\ fs' = fs
       /\ (ImageStep /\ CurMatch.found /\ CurView \in DOMAIN img_data
             /\ ~overwrite /\ img_path \in DOMAIN fs /\ fs[img_path] = "partial")
          => /\ fs' = fs
             /\ fetched' = fetched
             /\ pc' \notin {"get", "open", "copy"}
             /\ img_data'[CurView][idx] = basename(img_path)]_vars

C10_Witness ==
    /\ prev = "killed" /\ pc = "done"
    /\ ~overwrite
    /\ fetched = <<>>
    /\ \E v \in ViewCategories : \E n \in 1..Len(ships_data) :
          /\ img_data[v][n] # None
          /\ path_join(destination, img_data[v][n]) \in DOMAIN fs
          /\ fs[path_join(destination, img_data[v][n])] = "partial"

====
